---- MODULE Spec2Model ----
(***************************************************************************)
(* A model of the three stateful subsystems of @hieuxyz/rpc:               *)
(*   - the gateway connection (class DiscordWebSocket),                    *)
(*   - the HTTP dispatcher (class HTTPClient),                             *)
(*   - the asset resolver and its cache (class HieuxyzRPC).                *)
(* Each subsystem has its own specifications (SpecGateway, SpecPresence;   *)
(* SpecHttp, SpecHeaders, SpecApi; SpecRpc, SpecCaches, SpecAppAssets,     *)
(* SpecResolve); the variables of the others stay at their initial values. *)
(***************************************************************************)
EXTENDS Integers, Sequences, FiniteSets, TLC

(***************************************************************************)
(* Bounds of the model.                                                    *)
(***************************************************************************)
\* WebSocket objects that connect() may create in one behaviour
MaxSockets == 2
\* largest gateway sequence number the server hands out
MaxSeq == 2
\* the per-connection count of unacknowledged heartbeats saturates here
MaxBeats == 3

\* concurrent request() calls of one HTTPClient
NumRequests == 2
\* distinct route keys (buckets) the requests are spread over
NumBuckets == 2
\* largest retry_after a 429 response carries, in units of 1000 ms
MaxRetryAfter == 2

\* distinct cache keys of the image references one RPC instance resolves
NumKeys == 3
\* resolveImage() calls that may be in progress at once (overlapping builds)
NumTasks == 2
\* HieuxyzRPC.MAX_CACHE_SIZE, scaled down from the 50 of the source; overlapping
\* calls raise the cache above it, so that an eviction still has to choose
MAX_CACHE_SIZE == 1
\* application ids an instance is switched between
NumApps == 2

\* segments one call chain through http.api names
MaxChain == 2
\* segments the route array of buildRoute() holds in the model
MaxRoute == 4

Sockets == 1..MaxSockets
Requests == 1..NumRequests
Buckets == 1..NumBuckets
Keys == 1..NumKeys
Tasks == 1..NumTasks
AppIds == 1..NumApps

\* close codes the model draws from: normal, abnormal (no close frame),
\* the code the client itself uses (4000), the fatal codes and 4999
Codes == {1000, 1006, 4000, 4004, 4010, 4011, 4013, 4014, 4999}

Min(a, b) == IF a < b THEN a ELSE b

VARIABLES
    \* ---- gateway: DiscordWebSocket fields
    alwaysReconnect,    \* options.alwaysReconnect
    ws,                 \* this.ws: 0 = null, else the socket created last
    readyState,         \* per socket: "unused","connecting","open","closing","closed"
    closeReq,           \* per socket: 0, the code given to ws.close(), 1006 after terminate()
    helloed,            \* per socket: the server has sent its HELLO
    srv,                \* per socket: what the server got: "none","identify","resume","live"
    isReconnecting,
    permanentClose,
    connectTimeout,     \* "null", "pending" (timer armed), "fired"
    reconnectTimers,    \* pending setTimeout(() => this.connect(), 5000) callbacks
    jitterTimers,       \* pending first-beat timers, named by the socket whose HELLO made them
    intervalTimers,     \* live setInterval timers, named likewise
    heartbeatInterval,  \* this.heartbeatInterval: 0 = null, else the interval it holds
    lastHeartbeatAck,
    sessionId,          \* 0 = null
    sequence,           \* 0 = null
    resumeGatewayUrl,   \* 0 = null
    user,               \* 0 = null
    readyPromise,       \* state of the current this.readyPromise: "pending","resolved"
    runAwait,           \* the latest run() caller: "none","current","stale","released"
    \* ---- gateway: history
    hbSent,             \* per socket: heartbeats sent since the last ack (saturating)
    readySeen,          \* READY/RESUMED was handled since the latest run()
    lastClose,          \* code of the close event handled last, 0 = none
    overlapped,         \* some connect() ran while an earlier socket was still live
    activity,           \* what the last step did with a presence payload: "sent",
                        \* "dropped", or "-" when it was no sendActivity()
    \* ---- HTTP dispatcher: HTTPClient fields and the request() calls in progress
    globalReset,        \* this.globalReset - Date.now(), 0 once that moment is past
    headerBuilder,      \* this.headerBuilder is set
    initQ,              \* request() calls awaiting initialize(), in call order
    buckets,            \* this.buckets: per route key, the entries of its AsyncQueue
    pc,                 \* per request: "idle","init","queued","gwait","inflight","sleep","done"
    route,              \* per request: request.route (0 before the call)
    retries,            \* per request: request.retries
    sleepLeft,          \* per request: time left of its pending sleep()
    outcome,            \* per request: "none","ok","apiError","networkError"
    \* ---- HTTP dispatcher: history
    holdLeft,           \* per request: time left during which it may not be sent
    calls,              \* the requests in the order request() was called for them
    sends,              \* per request: times it was transmitted (saturating)
    kinds,              \* per request: how its attempts ended so far: "none", or
                        \* "net", "5xx", "429", "2xx", "4xx" when all ended that
                        \* way, or "mixed"
    \* ---- asset resolver: HieuxyzRPC fields and the resolveImage() calls in progress
    resolvedAssetsCache,\* this.resolvedAssetsCache: <<cache key, asset>> in insertion order
    renewalInterval,    \* this.renewalInterval is set
    renewalTimers,      \* interval timers of startBackgroundRenewal() that are live
    task,               \* per call: "idle","resolving" (image.resolve), "renewing"
                        \* (renewImage), "fetching" (fetchApplicationAssets)
    taskKey,            \* per call: its cache key, 0 when idle
    sweep,              \* the interval callback: "idle","iterating","renewing"
    sweepPos,           \* entries of the cache the callback's iterator has passed
    sweepKey,           \* cache key the callback is renewing, 0 = none
    \* ---- asset resolver: history
    resolutions,        \* per key: resolutions that yielded a key, since the last
                        \* eviction or clear (saturating at 2)
    clean,              \* per call: it awaits image.resolve() and no eviction or
                        \* clear has happened since it looked into the cache
    returned,           \* what resolveImage() returned in the last step: an
                        \* asset or "none" (undefined); "-" when no call returned
    stopped,            \* stopBackgroundRenewal() or destroy() has been called
    sweepAfterStop,     \* the interval callback has started after that
    \* ---- asset resolver: application assets
    applicationId,      \* this.applicationId
    applicationAssetsCache, \* this.applicationAssetsCache, per application id: <<>> no
                        \* entry, <<a>> the map made of the asset list of
                        \* application a, <<0>> the map made of an empty list
    fetchApp,           \* per call: the application id its fetch was made for, 0 = none
    fetches,            \* history, per application id: fetches of its asset list
                        \* since the last clear (saturating at 2)
    \* ---- HTTP dispatcher: the headers of one request
    headerCall,         \* the request whose headers execute() builds: its
                        \* request.headers, whether it has request.files, and the
                        \* headers put into the axios config ("-" = not there)
    \* ---- HTTP dispatcher: the route builder behind http.api
    router              \* route: the array `route` of buildRoute() without its
                        \* leading ''; chain, method: the segments and the method
                        \* the latest call chain named (history); path, bucket:
                        \* request.path and request.route of the request it made

gwFields == <<alwaysReconnect, ws, readyState, closeReq, helloed, srv, isReconnecting,
              permanentClose, connectTimeout, reconnectTimers, jitterTimers,
              intervalTimers, heartbeatInterval, lastHeartbeatAck, sessionId, sequence,
              resumeGatewayUrl, user, readyPromise, runAwait, hbSent, readySeen,
              lastClose, overlapped>>

gwVars == <<gwFields, activity>>

httpVars == <<globalReset, headerBuilder, initQ, buckets, pc, route, retries,
              sleepLeft, outcome, holdLeft, calls, sends, kinds>>

appVars == <<applicationId, applicationAssetsCache, fetchApp, fetches>>

lifeVars == <<stopped, sweepAfterStop>>

rpcVars == <<resolvedAssetsCache, renewalInterval, renewalTimers, task, taskKey,
             sweep, sweepPos, sweepKey, resolutions, clean, returned, lifeVars,
             appVars>>

hdrVars == <<headerCall>>

apiVars == <<router>>

vars == <<gwVars, httpVars, rpcVars, hdrVars, apiVars>>

nonGwVars == <<httpVars, rpcVars, hdrVars, apiVars>>
nonHttpVars == <<gwVars, rpcVars, hdrVars, apiVars>>
nonRpcVars == <<gwVars, httpVars, hdrVars, apiVars>>
nonHdrVars == <<gwVars, httpVars, rpcVars, apiVars>>
nonApiVars == <<gwVars, httpVars, rpcVars, hdrVars>>

(***************************************************************************)
(* Gateway connection                                                      *)
(***************************************************************************)
GwInit ==
    /\ alwaysReconnect \in BOOLEAN
    /\ ws = 0
    /\ readyState = [s \in Sockets |-> "unused"]
    /\ closeReq = [s \in Sockets |-> 0]
    /\ helloed = [s \in Sockets |-> FALSE]
    /\ srv = [s \in Sockets |-> "none"]
    /\ isReconnecting = FALSE
    /\ permanentClose = FALSE
    /\ connectTimeout = "null"
    /\ reconnectTimers = 0
    /\ jitterTimers = {}
    /\ intervalTimers = {}
    /\ heartbeatInterval = 0
    /\ lastHeartbeatAck = TRUE
    /\ sessionId = 0
    /\ sequence = 0
    /\ resumeGatewayUrl = 0
    /\ user = 0
    /\ readyPromise = "pending"
    /\ runAwait = "none"
    /\ hbSent = [s \in Sockets |-> 0]
    /\ readySeen = FALSE
    /\ lastClose = 0
    /\ overlapped = FALSE
    /\ activity = "-"

\* sockets created and not yet closed
LiveSockets == {s \in Sockets : readyState[s] \in {"connecting", "open", "closing"}}

\* a socket still delivers messages while open, and while a close handshake
\* the client started is in progress (not after terminate())
Receiving(s) ==
    \/ readyState[s] = "open"
    \/ readyState[s] = "closing" /\ closeReq[s] \notin {0, 1006}

\* WebSocket.readyState === WebSocket.OPEN for this.ws
WsOpen == ws # 0 /\ readyState[ws] = "open"

\* ws.close(code) of the ws library, on this.ws
wsClose(code) ==
    IF ws = 0 THEN UNCHANGED <<readyState, closeReq>>
    ELSE CASE readyState[ws] = "open" ->
                /\ readyState' = [readyState EXCEPT ![ws] = "closing"]
                /\ closeReq' = [closeReq EXCEPT ![ws] = code]
           [] readyState[ws] = "connecting" ->
                /\ readyState' = [readyState EXCEPT ![ws] = "closing"]
                /\ closeReq' = [closeReq EXCEPT ![ws] = 1006]
           [] OTHER -> UNCHANGED <<readyState, closeReq>>

\* ws.terminate() of the ws library, on this.ws
wsTerminate ==
    IF ws = 0 THEN UNCHANGED <<readyState, closeReq>>
    ELSE CASE readyState[ws] \in {"open", "connecting", "closing"} ->
                /\ readyState' = [readyState EXCEPT ![ws] = "closing"]
                /\ closeReq' = [closeReq EXCEPT ![ws] = 1006]
           [] OTHER -> UNCHANGED <<readyState, closeReq>>

shouldReconnect_not1000(code) == code # 1000

shouldReconnect_optionFirst(code) ==
    IF alwaysReconnect THEN TRUE
    ELSE IF code \in {4004, 4010, 4011, 4013, 4014} THEN FALSE
    ELSE code # 1000

shouldReconnect(code) ==
    IF code \in {4004, 4010, 4011, 4013, 4014} THEN FALSE
    ELSE IF alwaysReconnect THEN TRUE
    ELSE code # 1000

\* cleanupHeartbeat(): the interval timers left, and the field
cleanupHeartbeat_timers == intervalTimers \ {heartbeatInterval}

\* the part of connect() past its guard; the callers add the guard
connect ==
    IF isReconnecting
    THEN UNCHANGED <<ws, readyState, isReconnecting, permanentClose,
                     connectTimeout, readyPromise, overlapped>>
    ELSE /\ ws < MaxSockets
         /\ permanentClose' = FALSE
         /\ isReconnecting' = TRUE
         /\ readyPromise' = "pending"
         /\ ws' = ws + 1
         /\ readyState' = [readyState EXCEPT ![ws + 1] = "connecting"]
         /\ connectTimeout' = "pending"
         /\ overlapped' = (overlapped \/ LiveSockets # {})

\* the run() caller after a connect(): a caller that awaits the promise
\* connect() has just replaced is left with the old, unresolvable one
awaitAfterConnect ==
    IF ~isReconnecting /\ runAwait = "current" THEN "stale" ELSE runAwait

\* Client.run(): connect(), then await this.websocket.readyPromise
run ==
    /\ connect
    /\ runAwait' = IF readyPromise' = "resolved" THEN "released" ELSE "current"
    /\ readySeen' = FALSE
    /\ UNCHANGED <<alwaysReconnect, closeReq, helloed, srv, reconnectTimers,
                   jitterTimers, intervalTimers, heartbeatInterval, lastHeartbeatAck,
                   sessionId, sequence, resumeGatewayUrl, user, hbSent, lastClose>>
    /\ activity' = "-"
    /\ UNCHANGED nonGwVars

\* the reconnect timer of handleClose fires: () => this.connect()
reconnectFire ==
    /\ reconnectTimers > 0
    /\ reconnectTimers' = reconnectTimers - 1
    /\ connect
    /\ runAwait' = awaitAfterConnect
    /\ UNCHANGED <<alwaysReconnect, closeReq, helloed, srv,
                   jitterTimers, intervalTimers, heartbeatInterval, lastHeartbeatAck,
                   sessionId, sequence, resumeGatewayUrl, user, hbSent, readySeen,
                   lastClose>>
    /\ activity' = "-"
    /\ UNCHANGED nonGwVars

\* the connection timeout of connect() fires
connectTimeoutFire ==
    /\ connectTimeout = "pending"
    /\ connectTimeout' = "fired"
    /\ wsTerminate
    /\ UNCHANGED <<alwaysReconnect, ws, helloed, srv, isReconnecting, permanentClose,
                   reconnectTimers, jitterTimers, intervalTimers, heartbeatInterval,
                   lastHeartbeatAck, sessionId, sequence, resumeGatewayUrl, user,
                   readyPromise, runAwait, hbSent, readySeen, lastClose, overlapped>>
    /\ activity' = "-"
    /\ UNCHANGED nonGwVars

\* ws.on('open')
onOpen(s) ==
    /\ readyState[s] = "connecting"
    /\ readyState' = [readyState EXCEPT ![s] = "open"]
    /\ isReconnecting' = FALSE
    /\ connectTimeout' = "null"
    /\ UNCHANGED <<alwaysReconnect, ws, closeReq, helloed, srv, permanentClose,
                   reconnectTimers, jitterTimers, intervalTimers, heartbeatInterval,
                   lastHeartbeatAck, sessionId, sequence, resumeGatewayUrl, user,
                   readyPromise, runAwait, hbSent, readySeen, lastClose, overlapped>>
    /\ activity' = "-"
    /\ UNCHANGED nonGwVars

\* the codes a 'close' event of socket s can carry
CloseCodes(s) ==
    CASE readyState[s] = "connecting" -> {1006}
      [] readyState[s] = "open" -> Codes
      [] readyState[s] = "closing" -> {closeReq[s], 1006}
      [] OTHER -> {}

\* ws.on('close'): handleClose(code, reason)
handleClose(s, code) ==
    /\ code \in CloseCodes(s)
    /\ readyState' = [readyState EXCEPT ![s] = "closed"]
    /\ closeReq' = [closeReq EXCEPT ![s] = 0]
    /\ helloed' = [helloed EXCEPT ![s] = FALSE]
    /\ srv' = [srv EXCEPT ![s] = "none"]
    /\ hbSent' = [hbSent EXCEPT ![s] = 0]
    /\ intervalTimers' = cleanupHeartbeat_timers
    /\ heartbeatInterval' = 0
    /\ connectTimeout' = "null"
    /\ isReconnecting' = FALSE
    /\ IF code = 4004 \/ code = 4999
       THEN sessionId' = 0 /\ sequence' = 0 /\ resumeGatewayUrl' = 0
       ELSE UNCHANGED <<sessionId, sequence, resumeGatewayUrl>>
    /\ IF ~permanentClose /\ shouldReconnect(code)
       THEN reconnectTimers' = reconnectTimers + 1
       ELSE UNCHANGED reconnectTimers
    /\ lastClose' = code
    /\ UNCHANGED <<alwaysReconnect, ws, permanentClose, jitterTimers,
                   lastHeartbeatAck, user, readyPromise, runAwait, readySeen,
                   overlapped>>
    /\ activity' = "-"
    /\ UNCHANGED nonGwVars

\* sendJson() of an IDENTIFY or RESUME: it reaches the server of this.ws
\* only when that socket is open
sendAuth(kind) == IF WsOpen THEN [srv EXCEPT ![ws] = kind] ELSE srv

identify == sendAuth("identify")

resume_identifies == identify

resume == IF sessionId = 0 \/ sequence = 0 THEN identify ELSE sendAuth("resume")

\* onMessage, case OpCode.HELLO (startHeartbeating included)
onHello(s) ==
    /\ Receiving(s)
    /\ ~helloed[s]
    /\ helloed' = [helloed EXCEPT ![s] = TRUE]
    /\ connectTimeout' = "null"
    /\ intervalTimers' = cleanupHeartbeat_timers
    /\ heartbeatInterval' = 0
    /\ lastHeartbeatAck' = TRUE
    /\ jitterTimers' = jitterTimers \cup {s}
    /\ srv' = IF sessionId # 0 /\ sequence # 0 THEN resume ELSE identify
    /\ UNCHANGED <<alwaysReconnect, ws, readyState, closeReq, isReconnecting,
                   permanentClose, reconnectTimers, sessionId, sequence,
                   resumeGatewayUrl, user, readyPromise, runAwait, hbSent, readySeen,
                   lastClose, overlapped>>
    /\ activity' = "-"
    /\ UNCHANGED nonGwVars

\* this.resolveReady(user)
resolveReady ==
    /\ readyPromise' = "resolved"
    /\ runAwait' = IF runAwait = "current" THEN "released" ELSE runAwait
    /\ readySeen' = (runAwait # "none")

\* onMessage, case OpCode.DISPATCH with t = 'READY' (s = 1 of a new session)
onReady(s) ==
    /\ Receiving(s)
    /\ srv[s] = "identify"
    /\ srv' = [srv EXCEPT ![s] = "live"]
    /\ sequence' = 1
    /\ sessionId' = 1
    /\ resumeGatewayUrl' = 1
    /\ user' = 1
    /\ resolveReady
    /\ UNCHANGED <<alwaysReconnect, ws, readyState, closeReq, helloed, isReconnecting,
                   permanentClose, connectTimeout, reconnectTimers, jitterTimers,
                   intervalTimers, heartbeatInterval, lastHeartbeatAck, hbSent,
                   lastClose, overlapped>>
    /\ activity' = "-"
    /\ UNCHANGED nonGwVars

\* onMessage, case OpCode.DISPATCH with t = 'RESUMED'
onResumed(s) ==
    /\ Receiving(s)
    /\ srv[s] = "resume"
    /\ srv' = [srv EXCEPT ![s] = "live"]
    /\ IF user # 0 THEN resolveReady
       ELSE UNCHANGED <<readyPromise, runAwait, readySeen>>
    /\ UNCHANGED <<alwaysReconnect, ws, readyState, closeReq, helloed, isReconnecting,
                   permanentClose, connectTimeout, reconnectTimers, jitterTimers,
                   intervalTimers, heartbeatInterval, lastHeartbeatAck, sessionId,
                   sequence, resumeGatewayUrl, user, hbSent, lastClose, overlapped>>
    /\ activity' = "-"
    /\ UNCHANGED nonGwVars

\* onMessage, any other DISPATCH of a live session: payload.s moves the sequence on
onDispatch(s) ==
    /\ Receiving(s)
    /\ srv[s] = "live"
    /\ \E n \in (sequence + 1)..MaxSeq : sequence' = n
    /\ UNCHANGED <<alwaysReconnect, ws, readyState, closeReq, helloed, srv,
                   isReconnecting, permanentClose, connectTimeout, reconnectTimers,
                   jitterTimers, intervalTimers, heartbeatInterval, lastHeartbeatAck,
                   sessionId, resumeGatewayUrl, user, readyPromise, runAwait, hbSent,
                   readySeen, lastClose, overlapped>>
    /\ activity' = "-"
    /\ UNCHANGED nonGwVars

\* onMessage, case OpCode.HEARTBEAT_ACK
onHeartbeatAck(s) ==
    /\ Receiving(s)
    /\ hbSent[s] > 0
    /\ lastHeartbeatAck' = TRUE
    /\ hbSent' = [hbSent EXCEPT ![s] = 0]
    /\ UNCHANGED <<alwaysReconnect, ws, readyState, closeReq, helloed, srv,
                   isReconnecting, permanentClose, connectTimeout, reconnectTimers,
                   jitterTimers, intervalTimers, heartbeatInterval, sessionId,
                   sequence, resumeGatewayUrl, user, readyPromise, runAwait,
                   readySeen, lastClose, overlapped>>
    /\ activity' = "-"
    /\ UNCHANGED nonGwVars

\* onMessage, case OpCode.INVALID_SESSION with payload.d = resumable
onInvalidSession(s, resumable) ==
    /\ Receiving(s)
    /\ srv[s] # "none"
    /\ IF resumable
       THEN /\ wsClose(4000)
            /\ UNCHANGED <<sessionId, sequence>>
       ELSE /\ sessionId' = 0
            /\ sequence' = 0
            /\ wsClose(4004)
    /\ UNCHANGED <<alwaysReconnect, ws, helloed, srv, isReconnecting, permanentClose,
                   connectTimeout, reconnectTimers, jitterTimers, intervalTimers,
                   heartbeatInterval, lastHeartbeatAck, resumeGatewayUrl, user,
                   readyPromise, runAwait, hbSent, readySeen, lastClose, overlapped>>
    /\ activity' = "-"
    /\ UNCHANGED nonGwVars

\* a RECONNECT handler that also forgets the session
onReconnect_clearsSession(s) ==
    /\ Receiving(s)
    /\ helloed[s]
    /\ wsClose(4000)
    /\ sessionId' = 0
    /\ sequence' = 0
    /\ UNCHANGED <<alwaysReconnect, ws, helloed, srv, isReconnecting, permanentClose,
                   connectTimeout, reconnectTimers, jitterTimers, intervalTimers,
                   heartbeatInterval, lastHeartbeatAck, resumeGatewayUrl, user,
                   readyPromise, runAwait, hbSent, readySeen, lastClose, overlapped>>
    /\ activity' = "-"
    /\ UNCHANGED nonGwVars

\* a RECONNECT handler that closes with the normal code
onReconnect_closesNormally(s) ==
    /\ Receiving(s)
    /\ helloed[s]
    /\ wsClose(1000)
    /\ UNCHANGED <<alwaysReconnect, ws, helloed, srv, isReconnecting, permanentClose,
                   connectTimeout, reconnectTimers, jitterTimers, intervalTimers,
                   heartbeatInterval, lastHeartbeatAck, sessionId, sequence,
                   resumeGatewayUrl, user, readyPromise, runAwait, hbSent, readySeen,
                   lastClose, overlapped>>
    /\ activity' = "-"
    /\ UNCHANGED nonGwVars

\* onMessage, case OpCode.RECONNECT
onReconnect(s) ==
    /\ Receiving(s)
    /\ helloed[s]
    /\ wsClose(4000)
    /\ UNCHANGED <<alwaysReconnect, ws, helloed, srv, isReconnecting, permanentClose,
                   connectTimeout, reconnectTimers, jitterTimers, intervalTimers,
                   heartbeatInterval, lastHeartbeatAck, sessionId, sequence,
                   resumeGatewayUrl, user, readyPromise, runAwait, hbSent, readySeen,
                   lastClose, overlapped>>
    /\ activity' = "-"
    /\ UNCHANGED nonGwVars

\* sendHeartbeat(): a HEARTBEAT frame leaves on this.ws when it is open
sendHeartbeat ==
    IF WsOpen THEN [hbSent EXCEPT ![ws] = Min(hbSent[ws] + 1, MaxBeats)] ELSE hbSent

\* the first-beat timer of startHeartbeating() fires
jitterFire(t) ==
    /\ t \in jitterTimers
    /\ jitterTimers' = jitterTimers \ {t}
    /\ hbSent' = sendHeartbeat
    /\ heartbeatInterval' = t
    /\ intervalTimers' = intervalTimers \cup {t}
    /\ UNCHANGED <<alwaysReconnect, ws, readyState, closeReq, helloed, srv,
                   isReconnecting, permanentClose, connectTimeout, reconnectTimers,
                   lastHeartbeatAck, sessionId, sequence, resumeGatewayUrl, user,
                   readyPromise, runAwait, readySeen, lastClose, overlapped>>
    /\ activity' = "-"
    /\ UNCHANGED nonGwVars

\* a setInterval timer of startHeartbeating() ticks
intervalTick(t) ==
    /\ t \in intervalTimers
    /\ IF ~lastHeartbeatAck
       THEN /\ wsTerminate
            /\ UNCHANGED <<intervalTimers, heartbeatInterval, lastHeartbeatAck, hbSent>>
       ELSE IF ~WsOpen
       THEN /\ intervalTimers' = cleanupHeartbeat_timers
            /\ heartbeatInterval' = 0
            /\ UNCHANGED <<readyState, closeReq, lastHeartbeatAck, hbSent>>
       ELSE /\ lastHeartbeatAck' = FALSE
            /\ hbSent' = sendHeartbeat
            /\ UNCHANGED <<readyState, closeReq, intervalTimers, heartbeatInterval>>
    /\ UNCHANGED <<alwaysReconnect, ws, helloed, srv, isReconnecting, permanentClose,
                   connectTimeout, reconnectTimers, jitterTimers, sessionId, sequence,
                   resumeGatewayUrl, user, readyPromise, runAwait, readySeen,
                   lastClose, overlapped>>
    /\ activity' = "-"
    /\ UNCHANGED nonGwVars

\* DiscordWebSocket.close(force), as Client.close(force) calls it
close(force) ==
    /\ ws # 0
    /\ permanentClose' = (force \/ permanentClose)
    /\ IF readyState[ws] = "open" THEN wsClose(1000) ELSE wsTerminate
    /\ UNCHANGED <<alwaysReconnect, ws, helloed, srv, isReconnecting, connectTimeout,
                   reconnectTimers, jitterTimers, intervalTimers, heartbeatInterval,
                   lastHeartbeatAck, sessionId, sequence, resumeGatewayUrl, user,
                   readyPromise, runAwait, hbSent, readySeen, lastClose, overlapped>>
    /\ activity' = "-"
    /\ UNCHANGED nonGwVars

\* a sendJson() that does not look at the socket
sendActivity_anyState ==
    /\ activity' = "sent"
    /\ UNCHANGED gwFields
    /\ UNCHANGED nonGwVars

\* sendActivity(presence): sendJson() passes the payload to this.ws when it is
\* open and logs a warning otherwise
sendActivity ==
    /\ activity' = IF WsOpen THEN "sent" ELSE "dropped"
    /\ UNCHANGED gwFields
    /\ UNCHANGED nonGwVars

GwNext ==
    \/ run
    \/ reconnectFire
    \/ connectTimeoutFire
    \/ \E s \in Sockets : onOpen(s)
    \/ \E s \in Sockets : \E code \in Codes : handleClose(s, code)
    \/ \E s \in Sockets : onHello(s)
    \/ \E s \in Sockets : onReady(s)
    \/ \E s \in Sockets : onResumed(s)
    \/ \E s \in Sockets : onDispatch(s)
    \/ \E s \in Sockets : onHeartbeatAck(s)
    \/ \E s \in Sockets : \E resumable \in BOOLEAN : onInvalidSession(s, resumable)
    \/ \E s \in Sockets : onReconnect(s)
    \/ \E t \in Sockets : jitterFire(t)
    \/ \E t \in Sockets : intervalTick(t)
    \/ \E force \in BOOLEAN : close(force)

\* the connection life cycle without its heartbeats, and the owner's presence
\* updates: sendJson() reads nothing but this.ws and its readyState
PresenceNext ==
    \/ run
    \/ reconnectFire
    \/ connectTimeoutFire
    \/ \E s \in Sockets : onOpen(s)
    \/ \E s \in Sockets : \E code \in Codes : handleClose(s, code)
    \/ \E s \in Sockets : onHello(s)
    \/ \E s \in Sockets : onReady(s)
    \/ \E s \in Sockets : onResumed(s)
    \/ \E s \in Sockets : \E resumable \in BOOLEAN : onInvalidSession(s, resumable)
    \/ \E s \in Sockets : onReconnect(s)
    \/ \E force \in BOOLEAN : close(force)
    \/ sendActivity


(***************************************************************************)
(* HTTP dispatcher                                                         *)
(*                                                                         *)
(* Time is kept relative to Date.now(): globalReset and sleepLeft hold the *)
(* time still to pass (0 once the moment is reached), and tick moves the   *)
(* clock by one unit of 1000 ms.  A timer that is due may fire late.       *)
(***************************************************************************)
\* the retry budget of execute() and handleResponse(): retries < 3
RetryLimit == 3

RetryAfters == 1..MaxRetryAfter

Max(a, b) == IF a > b THEN a ELSE b

Dec(n) == IF n > 0 THEN n - 1 ELSE 0

HttpInit ==
    /\ globalReset = 0
    /\ headerBuilder = FALSE
    /\ initQ = <<>>
    /\ buckets = [b \in Buckets |-> <<>>]
    /\ pc = [r \in Requests |-> "idle"]
    /\ route = [r \in Requests |-> 0]
    /\ retries = [r \in Requests |-> 0]
    /\ sleepLeft = [r \in Requests |-> 0]
    /\ outcome = [r \in Requests |-> "none"]
    /\ holdLeft = [r \in Requests |-> 0]
    /\ calls = <<>>
    /\ sends = [r \in Requests |-> 0]
    /\ kinds = [r \in Requests |-> "none"]

\* history: a request that becomes in flight in this step is transmitted
recordSends ==
    sends' = [q \in Requests |->
                 IF pc[q] # "inflight" /\ pc'[q] = "inflight"
                 THEN Min(sends[q] + 1, RetryLimit + 1) ELSE sends[q]]

\* history: an attempt of request r ended in the given way
recordAttempt(r, kind) ==
    kinds' = [kinds EXCEPT ![r] = IF @ \in {"none", kind} THEN kind ELSE "mixed"]

\* request() was called for r before it was called for q
calledBefore(r, q) ==
    \E i \in 1..Len(calls) : \E j \in 1..Len(calls) :
        i < j /\ calls[i] = r /\ calls[j] = q

\* execute() has been entered for the request
Started(r) == pc[r] \in {"gwait", "inflight", "sleep", "done"}

\* requests between queue.wait() returning and queue.shift()
Executing(b) == {r \in Requests : route[r] = b /\ pc[r] \in {"gwait", "inflight", "sleep"}}

\* one unit of time passes
tick ==
    /\ globalReset > 0 \/ \E r \in Requests : sleepLeft[r] > 0
    /\ globalReset' = Dec(globalReset)
    /\ sleepLeft' = [r \in Requests |-> Dec(sleepLeft[r])]
    /\ holdLeft' = [r \in Requests |-> Dec(holdLeft[r])]
    /\ UNCHANGED <<headerBuilder, initQ, buckets, pc, route, retries, outcome>>
    /\ recordSends
    /\ UNCHANGED <<calls, kinds>>
    /\ UNCHANGED nonHttpVars

\* request(): the call, up to `await this.initialize()`
request(r, b) ==
    /\ pc[r] = "idle"
    /\ pc' = [pc EXCEPT ![r] = "init"]
    /\ route' = [route EXCEPT ![r] = b]
    /\ initQ' = Append(initQ, r)
    /\ UNCHANGED <<globalReset, headerBuilder, buckets, retries, sleepLeft, outcome,
                   holdLeft>>
    /\ calls' = Append(calls, r)
    /\ recordSends
    /\ UNCHANGED kinds
    /\ UNCHANGED nonHttpVars

\* the sequence without its entry x
Without(seq, x) == SelectSeq(seq, LAMBDA e : e # x)

enqueue_anyCaller(r) ==
    /\ \E i \in 1..Len(initQ) : initQ[i] = r
    /\ initQ' = Without(initQ, r)
    /\ headerBuilder' = TRUE
    /\ buckets' = [buckets EXCEPT ![route[r]] = Append(@, r)]
    /\ pc' = [pc EXCEPT ![r] = "queued"]
    /\ UNCHANGED <<globalReset, route, retries, sleepLeft, outcome, holdLeft>>
    /\ recordSends
    /\ UNCHANGED <<calls, kinds>>
    /\ UNCHANGED nonHttpVars

\* request(): initialize() is done; the bucket is looked up or created and
\* queue.wait() appends the caller to it
enqueue(r) ==
    /\ initQ # <<>>
    /\ r = Head(initQ)
    /\ initQ' = Tail(initQ)
    /\ headerBuilder' = TRUE
    /\ buckets' = [buckets EXCEPT ![route[r]] = Append(@, r)]
    /\ pc' = [pc EXCEPT ![r] = "queued"]
    /\ UNCHANGED <<globalReset, route, retries, sleepLeft, outcome, holdLeft>>
    /\ recordSends
    /\ UNCHANGED <<calls, kinds>>
    /\ UNCHANGED nonHttpVars

\* execute(): the global rate-limit check, then the transmission
\* (holdLeft records the pause in force when execute() is entered)
execute_noGlobalCheck(r) ==
    /\ holdLeft' = [holdLeft EXCEPT ![r] = Max(@, globalReset)]
    /\ pc' = [pc EXCEPT ![r] = "inflight"]
    /\ UNCHANGED sleepLeft

execute(r) ==
    /\ holdLeft' = [holdLeft EXCEPT ![r] = Max(@, globalReset)]
    /\ IF globalReset > 0
       THEN /\ pc' = [pc EXCEPT ![r] = "gwait"]
            /\ sleepLeft' = [sleepLeft EXCEPT ![r] = globalReset]
       ELSE /\ pc' = [pc EXCEPT ![r] = "inflight"]
            /\ UNCHANGED sleepLeft

\* queue.wait() returns for the entry at the head of its queue
acquire_anyEntry(r) ==
    /\ pc[r] = "queued"
    /\ execute(r)
    /\ UNCHANGED <<globalReset, headerBuilder, initQ, buckets, route, retries, outcome>>
    /\ recordSends
    /\ UNCHANGED <<calls, kinds>>
    /\ UNCHANGED nonHttpVars

acquire(r) ==
    /\ pc[r] = "queued"
    /\ Head(buckets[route[r]]) = r
    /\ execute(r)
    /\ UNCHANGED <<globalReset, headerBuilder, initQ, buckets, route, retries, outcome>>
    /\ recordSends
    /\ UNCHANGED <<calls, kinds>>
    /\ UNCHANGED nonHttpVars

\* execute(): the sleep on the global rate limit is over; the request is sent
afterGlobalWait(r) ==
    /\ pc[r] = "gwait"
    /\ sleepLeft[r] = 0
    /\ pc' = [pc EXCEPT ![r] = "inflight"]
    /\ UNCHANGED <<globalReset, headerBuilder, initQ, buckets, route, retries,
                   sleepLeft, outcome, holdLeft>>
    /\ recordSends
    /\ UNCHANGED <<calls, kinds>>
    /\ UNCHANGED nonHttpVars

\* a retry sleep (429, 5xx or network error) is over: this.execute(request)
afterSleep(r) ==
    /\ pc[r] = "sleep"
    /\ sleepLeft[r] = 0
    /\ execute(r)
    /\ UNCHANGED <<globalReset, headerBuilder, initQ, buckets, route, retries, outcome>>
    /\ recordSends
    /\ UNCHANGED <<calls, kinds>>
    /\ UNCHANGED nonHttpVars

finish_keepsBucket(r, result) ==
    /\ pc' = [pc EXCEPT ![r] = "done"]
    /\ outcome' = [outcome EXCEPT ![r] = result]
    /\ UNCHANGED <<buckets, sleepLeft, holdLeft>>

\* request(): the finally block, queue.shift(), and the call's result
finish(r, result) ==
    /\ pc' = [pc EXCEPT ![r] = "done"]
    /\ outcome' = [outcome EXCEPT ![r] = result]
    /\ buckets' = [buckets EXCEPT ![route[r]] = Tail(@)]
    /\ UNCHANGED <<sleepLeft, holdLeft>>

\* sleep(ms).then(() => this.execute(request))
sleepThenRetry(r, units) ==
    /\ pc' = [pc EXCEPT ![r] = "sleep"]
    /\ sleepLeft' = [sleepLeft EXCEPT ![r] = units]
    /\ UNCHANGED <<outcome, buckets>>

\* handleResponse(): status in [200,300)
respondOk(r) ==
    /\ pc[r] = "inflight"
    /\ finish(r, "ok")
    /\ UNCHANGED <<globalReset, headerBuilder, initQ, route, retries>>
    /\ recordAttempt(r, "2xx")
    /\ recordSends
    /\ UNCHANGED calls
    /\ UNCHANGED nonHttpVars

respondClientError_retries(r) ==
    /\ pc[r] = "inflight"
    /\ retries' = [retries EXCEPT ![r] = @ + 1]
    /\ pc' = [pc EXCEPT ![r] = "sleep"]
    /\ sleepLeft' = [sleepLeft EXCEPT ![r] = 1]
    /\ UNCHANGED <<globalReset, headerBuilder, initQ, buckets, route, outcome, holdLeft>>
    /\ recordAttempt(r, "4xx")
    /\ recordSends
    /\ UNCHANGED calls
    /\ UNCHANGED nonHttpVars

\* handleResponse(): a status that is not 429, 5xx or 2xx
respondClientError(r) ==
    /\ pc[r] = "inflight"
    /\ finish(r, "apiError")
    /\ UNCHANGED <<globalReset, headerBuilder, initQ, route, retries>>
    /\ recordAttempt(r, "4xx")
    /\ recordSends
    /\ UNCHANGED calls
    /\ UNCHANGED nonHttpVars

\* a 429 handled like a 5xx: it counts against the retry budget
respond429_countsRetry(r, retryAfter, global) ==
    /\ pc[r] = "inflight"
    /\ globalReset' = IF global THEN retryAfter ELSE globalReset
    /\ retries' = [retries EXCEPT ![r] = @ + 1]
    /\ IF retries[r] + 1 < RetryLimit
       THEN /\ sleepThenRetry(r, retryAfter)
            /\ holdLeft' = [holdLeft EXCEPT ![r] = retryAfter]
       ELSE finish(r, "apiError")
    /\ UNCHANGED <<headerBuilder, initQ, route>>
    /\ recordAttempt(r, "429")
    /\ recordSends
    /\ UNCHANGED calls
    /\ UNCHANGED nonHttpVars

\* handleResponse(): status 429 with data.retry_after and data.global
\* (holdLeft records the retry_after the response asked for)
respond429(r, retryAfter, global) ==
    /\ pc[r] = "inflight"
    /\ globalReset' = IF global THEN retryAfter ELSE globalReset
    /\ sleepThenRetry(r, retryAfter)
    /\ holdLeft' = [holdLeft EXCEPT ![r] = retryAfter]
    /\ UNCHANGED <<headerBuilder, initQ, route, retries>>
    /\ recordAttempt(r, "429")
    /\ recordSends
    /\ UNCHANGED calls
    /\ UNCHANGED nonHttpVars

\* handleResponse(): status in [500,600)
respondServerError(r) ==
    /\ pc[r] = "inflight"
    /\ retries' = [retries EXCEPT ![r] = @ + 1]
    /\ IF retries[r] + 1 < RetryLimit
       THEN /\ sleepThenRetry(r, (retries[r] + 1) * (retries[r] + 1))
            /\ UNCHANGED holdLeft
       ELSE finish(r, "apiError")
    /\ UNCHANGED <<globalReset, headerBuilder, initQ, route>>
    /\ recordAttempt(r, "5xx")
    /\ recordSends
    /\ UNCHANGED calls
    /\ UNCHANGED nonHttpVars

networkError_oneMoreTry(r) ==
    /\ pc[r] = "inflight"
    /\ retries' = [retries EXCEPT ![r] = @ + 1]
    /\ IF retries[r] + 1 <= RetryLimit
       THEN /\ pc' = [pc EXCEPT ![r] = "sleep"]
            /\ sleepLeft' = [sleepLeft EXCEPT ![r] = retries[r] + 1]
            /\ UNCHANGED <<outcome, buckets, holdLeft>>
       ELSE /\ pc' = [pc EXCEPT ![r] = "done"]
            /\ outcome' = [outcome EXCEPT ![r] = "networkError"]
            /\ buckets' = [buckets EXCEPT ![route[r]] = Tail(@)]
            /\ UNCHANGED <<sleepLeft, holdLeft>>
    /\ UNCHANGED <<globalReset, headerBuilder, initQ, route>>
    /\ recordAttempt(r, "net")
    /\ recordSends
    /\ UNCHANGED calls
    /\ UNCHANGED nonHttpVars

\* execute(): the catch block, a failure with no response
networkError(r) ==
    /\ pc[r] = "inflight"
    /\ retries' = [retries EXCEPT ![r] = @ + 1]
    /\ IF retries[r] + 1 < RetryLimit
       THEN /\ sleepThenRetry(r, retries[r] + 1)
            /\ UNCHANGED holdLeft
       ELSE finish(r, "networkError")
    /\ UNCHANGED <<globalReset, headerBuilder, initQ, route>>
    /\ recordAttempt(r, "net")
    /\ recordSends
    /\ UNCHANGED calls
    /\ UNCHANGED nonHttpVars

HttpNext ==
    \/ tick
    \/ \E r \in Requests : \E b \in Buckets : request(r, b)
    \/ \E r \in Requests : enqueue(r)
    \/ \E r \in Requests : acquire(r)
    \/ \E r \in Requests : afterGlobalWait(r)
    \/ \E r \in Requests : afterSleep(r)
    \/ \E r \in Requests : respondOk(r)
    \/ \E r \in Requests : respondClientError(r)
    \/ \E r \in Requests : \E retryAfter \in RetryAfters : \E global \in BOOLEAN :
          respond429(r, retryAfter, global)
    \/ \E r \in Requests : respondServerError(r)
    \/ \E r \in Requests : networkError(r)

(***************************************************************************)
(* HTTP dispatcher: the headers execute() sends                            *)
(*                                                                         *)
(* A header map gives every name the value it holds, or "-" when the name  *)
(* is not in the map; a value is named after the map it comes from.        *)
(***************************************************************************)
\* header names: two that getHeaders() sets itself, one of the base headers,
\* the one form-data computes, and one that only a caller sets
HeaderNames == {"Authorization", "Cookie", "User-Agent", "content-type", "X-Extra"}

NoHeaders == [n \in HeaderNames |-> "-"]

\* getHeaders(): Authorization, Cookie and the base headers of the session
getHeaders ==
    [n \in HeaderNames |->
        IF n \in {"Authorization", "Cookie", "User-Agent"} THEN "session" ELSE "-"]

\* formData.getHeaders(): the content type with the computed boundary
formDataHeaders ==
    [n \in HeaderNames |-> IF n = "content-type" THEN "multipart" ELSE "-"]

\* { ...a, ...b } and Object.assign(a, b): the entries of b replace those of a
Assign(a, b) == [n \in HeaderNames |-> IF b[n] # "-" THEN b[n] ELSE a[n]]

HdrInit == headerCall = [headers |-> NoHeaders, files |-> FALSE, sent |-> NoHeaders]

\* execute(): the headers of the axios config
configHeaders(req) ==
    LET headers == Assign(getHeaders, req.headers)
    IN  IF req.files THEN Assign(headers, formDataHeaders) ELSE headers

\* a caller hands a request with its own headers, with or without files
requestWithHeaders(h, files) ==
    /\ headerCall' = [headers |-> h, files |-> files, sent |-> NoHeaders]
    /\ UNCHANGED nonHdrVars

\* execute() builds the config of that request and sends it
executeHeaders ==
    /\ headerCall.sent = NoHeaders
    /\ headerCall' = [headerCall EXCEPT !.sent = configHeaders(headerCall)]
    /\ UNCHANGED nonHdrVars

HeadersNext ==
    \/ \E h \in [HeaderNames -> {"-", "request"}] : \E files \in BOOLEAN :
          requestWithHeaders(h, files)
    \/ executeHeaders

(***************************************************************************)
(* HTTP dispatcher: the route builder http.api                             *)
(*                                                                         *)
(* A path is the sequence of its segments: route.join('/') of the array    *)
(* ['', s1, ..., sn] is '/s1/.../sn'.                                      *)
(***************************************************************************)
\* names and arguments a call chain is made of; "id1" and "id2" stand for
\* snowflake ids (17 to 20 digits)
Segments == {"users", "@me", "channels", "id1", "id2"}

Ids == {"id1", "id2"}

Methods == {"GET", "PATCH"}

\* the call chains of the model
Chains == UNION {[1..n -> Segments] : n \in 1..MaxChain}

\* routePath.replace(/\d{17,20}/g, ':id')
bucketRoute(routePath) ==
    [i \in 1..Len(routePath) |-> IF routePath[i] \in Ids THEN ":id" ELSE routePath[i]]

\* /^\/(?:channels|guilds|webhooks)\/(\d{17,20})/.exec(routePath)?.[1] ?? 'global'
majorParams(routePath) ==
    IF Len(routePath) >= 2 /\ routePath[1] = "channels" /\ routePath[2] \in Ids
    THEN routePath[2] ELSE "global"

\* the bucket key `${METHOD}:${bucketRoute}:${major}`
bucketOf(method, routePath) == <<method, bucketRoute(routePath), majorParams(routePath)>>

ApiInit ==
    router = [route |-> <<>>, chain |-> <<>>, method |-> "-", path |-> <<>>,
              bucket |-> <<>>]

\* http.api.<chain>.<method>(): every property read and every call of the
\* proxy pushes onto the one array `route` that buildRoute() created when the
\* client was constructed; the method joins that array into the path
routeCall(chain, method) ==
    /\ Len(router.route) + Len(chain) <= MaxRoute
    /\ LET routePath == router.route \o chain
       IN  router' = [route |-> routePath, chain |-> chain, method |-> method,
                      path |-> routePath, bucket |-> bucketOf(method, routePath)]
    /\ UNCHANGED nonApiVars

ApiNext == \E chain \in Chains : \E method \in Methods : routeCall(chain, method)

(***************************************************************************)
(* Asset resolver and cache                                                *)
(*                                                                         *)
(* An asset is "fresh" (a key that getExpiryTime() finds no expiry in, or  *)
(* an mp:attachments key that expires more than an hour from now) or       *)
(* "soon" (an mp:attachments key that expires within the hour); "none"     *)
(* stands for undefined / null.                                            *)
(***************************************************************************)
RpcInit ==
    /\ resolvedAssetsCache = <<>>
    /\ renewalInterval = TRUE
    /\ renewalTimers = 1
    /\ task = [p \in Tasks |-> "idle"]
    /\ taskKey = [p \in Tasks |-> 0]
    /\ sweep = "idle"
    /\ sweepPos = 0
    /\ sweepKey = 0
    /\ resolutions = [k \in Keys |-> 0]
    /\ clean = [p \in Tasks |-> FALSE]
    /\ returned = "-"
    /\ stopped = FALSE
    /\ sweepAfterStop = FALSE
    /\ applicationId = 1
    /\ applicationAssetsCache = [a \in AppIds |-> <<>>]
    /\ fetchApp = [p \in Tasks |-> 0]
    /\ fetches = [a \in AppIds |-> 0]

\* Map.has
Has(c, k) == \E i \in 1..Len(c) : c[i][1] = k

\* Map.get
Get(c, k) == IF Has(c, k) THEN c[CHOOSE i \in 1..Len(c) : c[i][1] = k][2] ELSE "none"

\* Map.set: a present key keeps its place, a new key goes last
MapSet(c, k, v) ==
    IF Has(c, k)
    THEN [i \in 1..Len(c) |-> IF c[i][1] = k THEN <<k, v>> ELSE c[i]]
    ELSE Append(c, <<k, v>>)

\* Map.keys(): the keys in insertion order
keysOf(c) == [i \in 1..Len(c) |-> c[i][1]]

\* a test that never finds an asset expiring
needsRenewal_never(v) == FALSE

\* getExpiryTime() and the test of renewAssetIfNeeded(): expiry within the hour
needsRenewal(v) == v = "soon"

noResolutions == [k \in Keys |-> 0]

\* resolveImage() for a key that is not an application asset, from the
\* capacity check to its first await or its return
lookup(p, k) ==
    LET full == Len(resolvedAssetsCache) >= MAX_CACHE_SIZE /\ ~Has(resolvedAssetsCache, k)
        c1 == IF full THEN Tail(resolvedAssetsCache) ELSE resolvedAssetsCache
        cachedAsset == Get(c1, k)
        next == IF cachedAsset = "none" THEN "resolving"
                ELSE IF needsRenewal(cachedAsset) THEN "renewing" ELSE "idle"
    IN  /\ resolvedAssetsCache' = c1
        /\ sweepPos' = IF full /\ sweepPos > 0 THEN sweepPos - 1 ELSE sweepPos
        /\ resolutions' = IF full THEN noResolutions ELSE resolutions
        /\ clean' = [q \in Tasks |-> IF q = p THEN next = "resolving"
                                     ELSE clean[q] /\ ~full]
        /\ task' = [task EXCEPT ![p] = next]
        /\ taskKey' = [taskKey EXCEPT ![p] = IF next = "idle" THEN 0 ELSE k]
        /\ returned' = IF next = "idle" THEN cachedAsset ELSE "-"

\* a call of resolveImage(image) from buildActivity()
resolveImage(p, k) ==
    /\ task[p] = "idle"
    /\ lookup(p, k)
    /\ UNCHANGED <<renewalInterval, renewalTimers, sweep, sweepKey>>
    /\ UNCHANGED appVars
    /\ UNCHANGED lifeVars
    /\ UNCHANGED nonRpcVars

\* a resolveImage() that stores whatever image.resolve() yields
resolveReturns_storesAny(p, resolvedAsset) ==
    /\ task[p] = "resolving"
    /\ resolvedAssetsCache' = MapSet(resolvedAssetsCache, taskKey[p], resolvedAsset)
    /\ task' = [task EXCEPT ![p] = "idle"]
    /\ taskKey' = [taskKey EXCEPT ![p] = 0]
    /\ clean' = [clean EXCEPT ![p] = FALSE]
    /\ returned' = resolvedAsset
    /\ UNCHANGED <<renewalInterval, renewalTimers, sweep, sweepPos, sweepKey, resolutions>>
    /\ UNCHANGED appVars
    /\ UNCHANGED lifeVars
    /\ UNCHANGED nonRpcVars

\* resolveImage(): image.resolve() has returned
resolveReturns(p, resolvedAsset) ==
    /\ task[p] = "resolving"
    /\ IF resolvedAsset = "none"
       THEN /\ task' = [task EXCEPT ![p] = "idle"]
            /\ taskKey' = [taskKey EXCEPT ![p] = 0]
            /\ clean' = [clean EXCEPT ![p] = FALSE]
            /\ returned' = "none"
            /\ UNCHANGED <<resolvedAssetsCache, sweepPos, resolutions>>
       ELSE IF resolvedAsset = "app_asset"
       THEN lookup(p, taskKey[p])
       ELSE /\ resolvedAssetsCache' = MapSet(resolvedAssetsCache, taskKey[p], resolvedAsset)
            /\ resolutions' = IF clean[p]
                              THEN [resolutions EXCEPT ![taskKey[p]] = Min(@ + 1, 2)]
                              ELSE resolutions
            /\ task' = [task EXCEPT ![p] = "idle"]
            /\ taskKey' = [taskKey EXCEPT ![p] = 0]
            /\ clean' = [clean EXCEPT ![p] = FALSE]
            /\ returned' = resolvedAsset
            /\ UNCHANGED sweepPos
    /\ UNCHANGED <<renewalInterval, renewalTimers, sweep, sweepKey>>
    /\ UNCHANGED appVars
    /\ UNCHANGED lifeVars
    /\ UNCHANGED nonRpcVars

\* renewAssetIfNeeded() called by resolveImage(): renewImage() has returned;
\* assetKey, the asset found in the cache by the caller, was expiring ("soon")
renewReturns(p, newAsset) ==
    /\ task[p] = "renewing"
    /\ resolvedAssetsCache' = IF newAsset = "none" THEN resolvedAssetsCache
                              ELSE MapSet(resolvedAssetsCache, taskKey[p], newAsset)
    /\ returned' = IF newAsset = "none" THEN "soon" ELSE newAsset
    /\ task' = [task EXCEPT ![p] = "idle"]
    /\ taskKey' = [taskKey EXCEPT ![p] = 0]
    /\ UNCHANGED <<renewalInterval, renewalTimers, sweep, sweepPos, sweepKey,
                   resolutions, clean>>
    /\ UNCHANGED appVars
    /\ UNCHANGED lifeVars
    /\ UNCHANGED nonRpcVars

\* startBackgroundRenewal(): the interval fires and its callback starts to
\* iterate over the cache (one callback at a time is modelled)
renewalTick ==
    /\ renewalTimers > 0
    /\ sweep = "idle"
    /\ sweep' = "iterating"
    /\ sweepPos' = 0
    /\ returned' = "-"
    /\ sweepAfterStop' = (sweepAfterStop \/ stopped)
    /\ UNCHANGED <<resolvedAssetsCache, renewalInterval, renewalTimers, task, taskKey,
                   sweepKey, resolutions, clean, stopped>>
    /\ UNCHANGED appVars
    /\ UNCHANGED nonRpcVars

\* the callback's loop: the next entry, or the end of the iteration
sweepNext ==
    /\ sweep = "iterating"
    /\ IF sweepPos >= Len(resolvedAssetsCache)
       THEN /\ sweep' = "idle"
            /\ sweepPos' = 0
            /\ UNCHANGED sweepKey
       ELSE /\ sweepPos' = sweepPos + 1
            /\ IF needsRenewal(resolvedAssetsCache[sweepPos + 1][2])
               THEN /\ sweep' = "renewing"
                    /\ sweepKey' = resolvedAssetsCache[sweepPos + 1][1]
               ELSE UNCHANGED <<sweep, sweepKey>>
    /\ returned' = "-"
    /\ UNCHANGED <<resolvedAssetsCache, renewalInterval, renewalTimers, task, taskKey,
                   resolutions, clean>>
    /\ UNCHANGED appVars
    /\ UNCHANGED lifeVars
    /\ UNCHANGED nonRpcVars

\* renewAssetIfNeeded() called by the callback: renewImage() has returned
sweepRenewReturns(newAsset) ==
    /\ sweep = "renewing"
    /\ resolvedAssetsCache' = IF newAsset = "none" THEN resolvedAssetsCache
                              ELSE MapSet(resolvedAssetsCache, sweepKey, newAsset)
    /\ sweep' = "iterating"
    /\ sweepKey' = 0
    /\ returned' = "-"
    /\ UNCHANGED <<renewalInterval, renewalTimers, task, taskKey, sweepPos, resolutions,
                   clean>>
    /\ UNCHANGED appVars
    /\ UNCHANGED lifeVars
    /\ UNCHANGED nonRpcVars

\* a clearCache() that forgets the application-asset cache
clearCache_resolvedOnly ==
    /\ resolvedAssetsCache' = <<>>
    /\ sweepPos' = 0
    /\ resolutions' = noResolutions
    /\ clean' = [p \in Tasks |-> FALSE]
    /\ returned' = "-"
    /\ UNCHANGED <<task, taskKey, sweep, sweepKey>>
    /\ UNCHANGED appVars

\* clearCache(): what it does to the two caches
clearCache_effect ==
    /\ resolvedAssetsCache' = <<>>
    /\ applicationAssetsCache' = [a \in AppIds |-> <<>>]
    /\ fetches' = [a \in AppIds |-> 0]
    /\ UNCHANGED <<applicationId, fetchApp>>
    /\ sweepPos' = 0
    /\ resolutions' = noResolutions
    /\ clean' = [p \in Tasks |-> FALSE]
    /\ returned' = "-"
    /\ UNCHANGED <<task, taskKey, sweep, sweepKey>>

clearCache ==
    /\ clearCache_effect
    /\ UNCHANGED <<renewalInterval, renewalTimers>>
    /\ UNCHANGED lifeVars
    /\ UNCHANGED nonRpcVars

\* what a stop can do wrong: forget the handle and leave the timer running
stopBackgroundRenewal_leak ==
    /\ renewalInterval' = FALSE
    /\ UNCHANGED renewalTimers

\* stopBackgroundRenewal(): what it does to the timer and its handle
stopBackgroundRenewal_effect ==
    IF renewalInterval
    THEN /\ renewalTimers' = renewalTimers - 1
         /\ renewalInterval' = FALSE
    ELSE UNCHANGED <<renewalInterval, renewalTimers>>

stopBackgroundRenewal ==
    /\ renewalInterval
    /\ stopBackgroundRenewal_effect
    /\ stopped' = TRUE
    /\ returned' = "-"
    /\ UNCHANGED <<resolvedAssetsCache, task, taskKey, sweep, sweepPos, sweepKey,
                   resolutions, clean, sweepAfterStop>>
    /\ UNCHANGED appVars
    /\ UNCHANGED nonRpcVars

\* destroy(): stopBackgroundRenewal(), then clearCache(); Client.removeRPC()
\* and Client.close() act on the instance through destroy()
destroy ==
    /\ stopBackgroundRenewal_effect
    /\ stopped' = TRUE
    /\ clearCache_effect
    /\ UNCHANGED sweepAfterStop
    /\ UNCHANGED nonRpcVars

\* time passes: the expiry of every cached attachment key comes within the hour
hourPasses ==
    /\ \E i \in 1..Len(resolvedAssetsCache) : resolvedAssetsCache[i][2] = "fresh"
    /\ resolvedAssetsCache' =
           [i \in 1..Len(resolvedAssetsCache) |->
               IF resolvedAssetsCache[i][2] = "fresh"
               THEN <<resolvedAssetsCache[i][1], "soon">>
               ELSE resolvedAssetsCache[i]]
    /\ returned' = "-"
    /\ UNCHANGED <<renewalInterval, renewalTimers, task, taskKey, sweep, sweepPos,
                   sweepKey, resolutions, clean>>
    /\ UNCHANGED appVars
    /\ UNCHANGED lifeVars
    /\ UNCHANGED nonRpcVars

\* resolveImage() of an application-asset reference, after
\* ensureAppAssetsLoaded(): the lookup of the asset name in the map cached
\* under the current application id (the reference names an asset of the
\* current application)
appLookup(c) == IF c[applicationId] = <<applicationId>> THEN "assetId" ELSE "none"

resolvedVars == <<resolvedAssetsCache, renewalInterval, renewalTimers, taskKey, sweep,
                  sweepPos, sweepKey, resolutions, clean>>

\* a call of resolveImage(image) for an application-asset reference, up to
\* the await in ensureAppAssetsLoaded() or, when the map is cached, its return
resolveAppAsset(p) ==
    /\ task[p] = "idle"
    /\ IF applicationAssetsCache[applicationId] = <<>>
       THEN /\ task' = [task EXCEPT ![p] = "fetching"]
            /\ fetchApp' = [fetchApp EXCEPT ![p] = applicationId]
            /\ fetches' = [fetches EXCEPT ![applicationId] = Min(@ + 1, 2)]
            /\ returned' = "-"
            /\ UNCHANGED <<applicationId, applicationAssetsCache>>
       ELSE /\ returned' = appLookup(applicationAssetsCache)
            /\ UNCHANGED <<task, appVars>>
    /\ UNCHANGED resolvedVars
    /\ UNCHANGED lifeVars
    /\ UNCHANGED nonRpcVars

\* ensureAppAssetsLoaded(): fetchApplicationAssets() has returned the asset
\* list (ok) or, after a failure, an empty list; the map is stored under
\* this.applicationId as it is now, and resolveImage() looks the name up
fetchReturns(p, ok) ==
    /\ task[p] = "fetching"
    /\ LET assetMap == IF ok THEN <<fetchApp[p]>> ELSE <<0>>
           c == [applicationAssetsCache EXCEPT ![applicationId] = assetMap]
       IN  /\ applicationAssetsCache' = c
           /\ returned' = appLookup(c)
    /\ task' = [task EXCEPT ![p] = "idle"]
    /\ fetchApp' = [fetchApp EXCEPT ![p] = 0]
    /\ UNCHANGED <<applicationId, fetches>>
    /\ UNCHANGED resolvedVars
    /\ UNCHANGED lifeVars
    /\ UNCHANGED nonRpcVars

setApplicationId(id) ==
    /\ id # applicationId
    /\ applicationId' = id
    /\ returned' = "-"
    /\ UNCHANGED <<task, applicationAssetsCache, fetchApp, fetches>>
    /\ UNCHANGED resolvedVars
    /\ UNCHANGED lifeVars
    /\ UNCHANGED nonRpcVars

\* the resolution of application-asset references: it shares no state with
\* the resolution of the other references but the call slots and what
\* clearCache() empties
AppAssetsNext ==
    \/ \E p \in Tasks : resolveAppAsset(p)
    \/ \E p \in Tasks : \E ok \in BOOLEAN : fetchReturns(p, ok)
    \/ \E id \in AppIds : setApplicationId(id)
    \/ clearCache
    \/ destroy

\* the two resolution paths together with clearCache(), without the
\* background sweep
CachesNext ==
    \/ \E p \in Tasks : \E k \in Keys : resolveImage(p, k)
    \/ \E p \in Tasks : \E resolvedAsset \in {"none", "fresh", "app_asset"} :
          resolveReturns(p, resolvedAsset)
    \/ \E p \in Tasks : \E newAsset \in {"none", "fresh"} : renewReturns(p, newAsset)
    \/ hourPasses
    \/ \E p \in Tasks : resolveAppAsset(p)
    \/ \E p \in Tasks : \E ok \in BOOLEAN : fetchReturns(p, ok)
    \/ clearCache
    \/ destroy

\* what image.resolve() can yield for the reference with cache key k: key 1
\* is a RawImage whose asset key begins with 'app_asset:' (resolve() returns
\* the asset key itself), key 2 an ExternalImage or a LocalImage (the key the
\* service returns, or undefined), the others a DiscordImage or a RawImage
\* with another asset key (always a key)
Yields(k) ==
    CASE k = 1 -> {"app_asset"}
      [] k = 2 -> {"none", "fresh"}
      [] OTHER -> {"fresh"}

\* image.resolve() of the call's reference returns what its class can yield
imageResolves(p, resolvedAsset) ==
    /\ resolvedAsset \in Yields(taskKey[p])
    /\ resolveReturns(p, resolvedAsset)

\* the calls of resolveImage() alone, each reference resolving as its class does
ResolveNext ==
    \/ \E p \in Tasks : \E k \in Keys : resolveImage(p, k)
    \/ \E p \in Tasks : \E resolvedAsset \in {"none", "fresh", "app_asset"} :
          imageResolves(p, resolvedAsset)
    \/ \E p \in Tasks : \E newAsset \in {"none", "fresh"} : renewReturns(p, newAsset)
    \/ \E p \in Tasks : resolveAppAsset(p)
    \/ \E p \in Tasks : \E ok \in BOOLEAN : fetchReturns(p, ok)
    \/ hourPasses

RpcNext ==
    \/ \E p \in Tasks : \E k \in Keys : resolveImage(p, k)
    \/ \E p \in Tasks : \E resolvedAsset \in {"none", "fresh", "app_asset"} :
          resolveReturns(p, resolvedAsset)
    \/ \E p \in Tasks : \E newAsset \in {"none", "fresh"} : renewReturns(p, newAsset)
    \/ renewalTick
    \/ sweepNext
    \/ \E newAsset \in {"none", "fresh"} : sweepRenewReturns(newAsset)
    \/ clearCache
    \/ stopBackgroundRenewal
    \/ destroy
    \/ hourPasses

Init == GwInit /\ HttpInit /\ RpcInit /\ HdrInit /\ ApiInit

SpecGateway == Init /\ [][GwNext]_vars

SpecPresence == Init /\ [][PresenceNext]_vars

SpecHttp == Init /\ [][HttpNext]_vars

SpecRpc == Init /\ [][RpcNext]_vars

SpecAppAssets == Init /\ [][AppAssetsNext]_vars

SpecCaches == Init /\ [][CachesNext]_vars

SpecHeaders == Init /\ [][HeadersNext]_vars

SpecApi == Init /\ [][ApiNext]_vars

\* the calls of resolveImage() when every service call they await returns
SpecResolve ==
    /\ Init
    /\ [][ResolveNext]_vars
    /\ \A p \in Tasks :
          /\ WF_vars(\E resolvedAsset \in {"none", "fresh", "app_asset"} :
                        imageResolves(p, resolvedAsset))
          /\ WF_vars(\E newAsset \in {"none", "fresh"} : renewReturns(p, newAsset))
          /\ WF_vars(\E ok \in BOOLEAN : fetchReturns(p, ok))

(***************************************************************************)
(* Claims about the gateway connection (checked under SpecGateway)         *)
(***************************************************************************)
FatalCodes == {4004, 4010, 4011, 4013, 4014}

\* C1: after close(force = true) the gateway makes no automatic connection
\* attempt: while the permanent-close flag set by close(true) stands (only a
\* connect() clears it), no reconnect timer creates a socket.
C1_NoAutoConnectAfterForcedClose ==
    [][permanentClose => ~(reconnectTimers' < reconnectTimers /\ ws' # ws)]_vars

\* C4: a caller of run() is released once READY or RESUMED has been received
\* after its call, on the first connection or on a later automatic reconnect.
C4_RunReleasedOnReady == readySeen => runAwait = "released"

\* C5: at any time at most one socket is live (created and not yet closed).
C5_OneLiveSocket == Cardinality(LiveSockets) <= 1

\* C6: at any time the live heartbeat timers (first-beat timers and interval
\* timers) all belong to one connection; stated for the behaviours in which
\* every socket was created after the one before it had closed.
C6_OneHeartbeatTimer ==
    ~overlapped => Cardinality(jitterTimers \cup intervalTimers) <= 1

\* C7: no connection ever has a third heartbeat sent on it with no
\* heartbeat-ack received since the first of the three; stated for the
\* behaviours in which every socket was created after the one before it had
\* closed.
C7_NoThirdUnackedHeartbeat == ~overlapped => \A s \in Sockets : hbSent[s] <= 2

\* C10: handling a close with a fatal code schedules no reconnect, whatever
\* alwaysReconnect is.
C10_FatalNeverReconnects ==
    [][\A s \in Sockets : \A code \in FatalCodes :
          handleClose(s, code) => reconnectTimers' = reconnectTimers]_vars

\* C10 witness: a fatal close was handled with alwaysReconnect set and no
\* permanent close in force, and no reconnect is pending.
C10_Witness ==
    /\ alwaysReconnect
    /\ ~permanentClose
    /\ lastClose \in FatalCodes
    /\ reconnectTimers = 0

\* C11: handling a close with code 4004 while alwaysReconnect is false
\* schedules no reconnect and leaves session_id, sequence and resume URL
\* cleared.
C11_Close4004ClearsSession ==
    [][\A s \in Sockets :
          (handleClose(s, 4004) /\ ~alwaysReconnect)
              => /\ reconnectTimers' = reconnectTimers
                 /\ sessionId' = 0
                 /\ sequence' = 0
                 /\ resumeGatewayUrl' = 0]_vars

\* C11 witness: a session had been established (READY set the user), a close
\* with 4004 was handled with alwaysReconnect false, the session fields are
\* clear and no reconnect is pending.
C11_Witness ==
    /\ ~alwaysReconnect
    /\ lastClose = 4004
    /\ user # 0
    /\ sessionId = 0 /\ sequence = 0 /\ resumeGatewayUrl = 0
    /\ reconnectTimers = 0

\* C12: handling a close with code 1000 while alwaysReconnect is true and no
\* forced close is in force schedules a reconnect and leaves the session
\* fields as they are; they stay so until the next HELLO (as long as no other
\* close is handled and no socket was created while another was live), and a
\* HELLO on the open current socket with a session cached is answered with
\* RESUME.
C12_Close1000ReconnectsAndResumes ==
    [][/\ \A s \in Sockets :
              (handleClose(s, 1000) /\ alwaysReconnect /\ ~permanentClose)
                  => /\ reconnectTimers' = reconnectTimers + 1
                     /\ UNCHANGED <<sessionId, sequence, resumeGatewayUrl>>
       /\ (~overlapped' /\ lastClose = 1000 /\ lastClose' = 1000
              /\ \A s \in Sockets : ~helloed[s])
              => UNCHANGED <<sessionId, sequence, resumeGatewayUrl>>
       /\ \A s \in Sockets :
              (onHello(s) /\ s = ws /\ readyState[s] = "open"
                          /\ sessionId # 0 /\ sequence # 0)
                  => srv'[s] = "resume"]_vars

\* C12 witness: after a close with 1000 under alwaysReconnect, with every
\* socket created after the one before it had closed, the HELLO of the new
\* connection has been answered with RESUME.
C12_Witness ==
    /\ alwaysReconnect
    /\ ~overlapped
    /\ lastClose = 1000
    /\ ws # 0
    /\ srv[ws] = "resume"
    /\ reconnectTimers = 0

\* C13: a non-forced close() ends the connection as a normal closure: in
\* whatever state the live socket is, the close it asks for is one with code
\* 1000 (so that the reconnect policy for 1000 decides what follows).
C13_NonForcedCloseIsNormal ==
    [][(close(FALSE) /\ readyState[ws] \in {"connecting", "open", "closing"})
          => closeReq'[ws] = 1000]_vars

\* C14: as long as the current socket is live and has not received HELLO,
\* the connection timeout of its connect() is armed (pending or fired),
\* whether or not the socket has opened.
C14_TimeoutArmedUntilHello ==
    (ws # 0 /\ readyState[ws] \in {"connecting", "open"} /\ ~helloed[ws])
        => connectTimeout # "null"

\* C15: after a close with a fatal code, once nothing is left that could
\* still connect (no live socket, no reconnect timer), no run() caller is
\* still waiting for readiness.
C15_FatalCloseReleasesRun ==
    (lastClose \in FatalCodes /\ LiveSockets = {} /\ reconnectTimers = 0)
        => runAwait \notin {"current", "stale"}

\* C26: sendActivity() passes the payload to the socket exactly when this.ws
\* is open; otherwise it drops it, and in either case it changes no field of
\* the connection or the session.
C26_SendActivityOnlyWhenOpen ==
    /\ [](activity = "sent" => WsOpen)
    /\ [][sendActivity
          => /\ UNCHANGED gwFields
             /\ activity' = IF WsOpen THEN "sent" ELSE "dropped"
         ]_vars

\* a presence update was dropped on a socket that is closing, with a session
\* cached
C26_Witness ==
    /\ activity = "dropped"
    /\ ws # 0
    /\ readyState[ws] = "closing"
    /\ sessionId # 0

\* C27: a session field (sessionId, sequence, resumeGatewayUrl) goes from set
\* to null only in the handling of a close with code 4004 or 4999 or of an
\* INVALID_SESSION that is not resumable.
C27_SessionClearedOnlyWhenNotResumable ==
    [][(\/ sessionId # 0 /\ sessionId' = 0
        \/ sequence # 0 /\ sequence' = 0
        \/ resumeGatewayUrl # 0 /\ resumeGatewayUrl' = 0)
       => \E s \in Sockets :
            \/ handleClose(s, 4004)
            \/ handleClose(s, 4999)
            \/ onInvalidSession(s, FALSE)
      ]_vars

\* the session is still cached after a normal close and a forced close()
C27_Witness ==
    /\ sessionId # 0
    /\ sequence # 0
    /\ resumeGatewayUrl # 0
    /\ lastClose = 1000
    /\ permanentClose
    /\ ws # 0
    /\ readyState[ws] = "closed"

\* C29: the close the client asks for on an INVALID_SESSION that is not
\* resumable (close code 4004) ends, unless the owner closed for good, with a
\* reconnect being scheduled and the session fields null, so that the next
\* HELLO is answered with IDENTIFY.
C29_InvalidSessionReidentifies ==
    [][\A s \in Sockets :
          (/\ closeReq[s] = 4004
           /\ ~permanentClose
           /\ readyState'[s] = "closed"
           /\ \E code \in CloseCodes(s) : handleClose(s, code))
          => /\ reconnectTimers' = reconnectTimers + 1
             /\ sessionId' = 0
             /\ sequence' = 0
      ]_vars

\* C30: RECONNECT and a resumable INVALID_SESSION close the open socket with
\* code 4000 and keep the session fields; the close that follows schedules a
\* reconnect whatever alwaysReconnect is (unless the owner closed for good)
\* and keeps them too; a HELLO on the current socket with a session cached
\* is answered with RESUME.
C30_ReconnectOpResumes ==
    [][\A s \in Sockets :
          /\ (WsOpen /\ (onReconnect(s) \/ onInvalidSession(s, TRUE)))
             => /\ readyState'[ws] = "closing"
                /\ closeReq'[ws] = 4000
                /\ UNCHANGED <<sessionId, sequence, resumeGatewayUrl>>
          /\ (/\ closeReq[s] = 4000
              /\ ~permanentClose
              /\ readyState'[s] = "closed"
              /\ \E code \in CloseCodes(s) : handleClose(s, code))
             => /\ reconnectTimers' = reconnectTimers + 1
                /\ UNCHANGED <<sessionId, sequence, resumeGatewayUrl>>
          /\ (/\ s = ws
              /\ readyState[s] = "open"
              /\ sessionId # 0 /\ sequence # 0 /\ lastClose = 4000
              /\ onHello(s))
             => srv'[s] = "resume"
      ]_vars

\* without alwaysReconnect, a session was resumed on a new socket after a
\* close with code 4000
C30_Witness ==
    /\ ~alwaysReconnect
    /\ ~overlapped
    /\ lastClose = 4000
    /\ ws # 0
    /\ srv[ws] = "resume"
    /\ reconnectTimers = 0

\* C31: on each HELLO the client starts heartbeating and sends exactly one of
\* IDENTIFY and RESUME on the connection the HELLO came from: RESUME when a
\* session is cached, IDENTIFY when none is, and nothing to any other
\* connection; a RESUME never leaves without a session id.
C31_HelloSendsIdentifyOrResume ==
    [][\A s \in Sockets :
          (helloed'[s] /\ ~helloed[s])
          => /\ s \in jitterTimers'
             /\ lastHeartbeatAck'
             /\ srv'[s] = IF sessionId # 0 /\ sequence # 0 THEN "resume"
                          ELSE "identify"
             /\ \A o \in Sockets \ {s} : srv'[o] = srv[o]
             /\ (srv'[s] = "resume" => sessionId' # 0)
      ]_vars

\* C32: from the sending of a heartbeat, the first one included, until a
\* heartbeat-ack is received, the ack-pending flag is set (lastHeartbeatAck
\* is false).
C32_AckPendingAfterHeartbeat ==
    \A s \in Sockets : hbSent[s] > 0 => ~lastHeartbeatAck

\* C33: once the close of a socket has been handled, whatever the code and
\* also after close(force), and until a HELLO arrives on a new connection
\* (no connection holds a HELLO meanwhile), no heartbeat timer is live and no
\* heartbeat frame has been sent.
C33_NoHeartbeatBetweenCloseAndHello ==
    (\A s \in Sockets : ~helloed[s])
    => /\ jitterTimers = {}
       /\ intervalTimers = {}
       /\ \A s \in Sockets : hbSent[s] = 0

(***************************************************************************)
(* Claims about the HTTP dispatcher                                        *)
(***************************************************************************)
\* C2: among the requests routed to one bucket at most one is executing at a
\* time, where executing covers the wait on the global rate limit, the
\* transmission and the retry sleeps; another starts only after it finished.
C2_OneExecutingPerBucket ==
    \A b \in Buckets : Cardinality(Executing(b)) <= 1

\* a request sleeps before a retry while another of its bucket is queued
C2_Witness ==
    \E r \in Requests : \E q \in Requests :
        /\ route[r] = route[q]
        /\ pc[r] = "sleep"
        /\ retries[r] > 0
        /\ pc[q] = "queued"

C17_BucketReleasedOnEveryExit ==
    /\ \A b \in Buckets : \A i \in 1..Len(buckets[b]) :
           /\ pc[buckets[b][i]] \in {"queued", "gwait", "inflight", "sleep"}
           /\ route[buckets[b][i]] = b
           /\ (i > 1 => pc[buckets[b][i]] = "queued")
    /\ \A r \in Requests : pc[r] = "done" => outcome[r] \in {"ok", "apiError", "networkError"}

\* C17 witness: a request was rejected after its retries ran out and the
\* request queued behind it on the same bucket is now in flight.
C17_Witness ==
    \E r \in Requests : \E q \in Requests :
        /\ route[r] = route[q]
        /\ calledBefore(r, q)
        /\ pc[r] = "done"
        /\ outcome[r] = "networkError"
        /\ pc[q] = "inflight"

\* C18: a request whose every attempt failed at transport level is never
\* transmitted more than 3 times and, once ended, was transmitted exactly 3
\* times and rejected with a network error; after its n-th failed attempt
\* (n = 1, 2) it sleeps n units of 1000 ms, and no sleeping request is sent
\* again before its sleep is over.
C18_NetworkErrorThreeAttempts ==
    /\ [](\A r \in Requests :
             kinds[r] = "net"
                 => /\ sends[r] <= 3
                    /\ pc[r] = "done" => (sends[r] = 3 /\ outcome[r] = "networkError"))
    /\ [][\A r \in Requests :
             /\ (networkError(r) /\ pc'[r] = "sleep")
                    => (sleepLeft'[r] = retries'[r] /\ (kinds'[r] = "net" => retries'[r] = sends[r]))
             /\ (pc[r] = "sleep" /\ pc'[r] # "sleep") => sleepLeft[r] = 0]_vars

\* C18 witness: a request ended with a network error after three
\* transmissions that all failed at transport level.
C18_Witness ==
    \E r \in Requests :
        /\ pc[r] = "done"
        /\ kinds[r] = "net"
        /\ sends[r] = 3
        /\ outcome[r] = "networkError"

\* C19: a request whose every response had a status in [500,600) and that has
\* ended was rejected with a server error.
C19_ServerErrorSurfaced ==
    \A r \in Requests :
        (pc[r] = "done" /\ kinds[r] = "5xx") => outcome[r] = "serverError"

\* C20: a response whose status is neither 429, 5xx nor 2xx ends the call at
\* once with an API error and leaves the retry count as it is; a request
\* that has ended is never transmitted again.
C20_ClientErrorNotRetried ==
    [][\A r \in Requests :
          /\ respondClientError(r)
                => /\ pc'[r] = "done"
                   /\ outcome'[r] = "apiError"
                   /\ retries'[r] = retries[r]
          /\ pc[r] = "done" => (pc'[r] = "done" /\ sends'[r] = sends[r])]_vars

\* C20 witness: a request ended with an API error on the response to its
\* first and only transmission.
C20_Witness ==
    \E r \in Requests :
        /\ pc[r] = "done"
        /\ kinds[r] = "4xx"
        /\ outcome[r] = "apiError"
        /\ sends[r] = 1
        /\ retries[r] = 0

\* C34: no request is transmitted while the global rate-limit timestamp is
\* still in the future, also when another bucket's response set or extended
\* it while the request slept on an earlier global pause.
C34_NoSendDuringGlobalPause ==
    [][\A r \in Requests :
          (pc[r] # "inflight" /\ pc'[r] = "inflight") => globalReset = 0
      ]_vars

\* C35: a 429 response never ends the call and leaves the retry count as it
\* is: the request sleeps retry_after and is tried again; while all its
\* responses were 429 the call is pending with its retry budget untouched,
\* however many they were, and a 2xx response then resolves it.
C35_RateLimitNeverSurfaced ==
    /\ [](\A r \in Requests :
             kinds[r] = "429"
                 => /\ retries[r] = 0
                    /\ outcome[r] = "none"
                    /\ pc[r] \in {"sleep", "gwait", "inflight"})
    /\ [][\A r \in Requests :
             /\ \A retryAfter \in RetryAfters : \A global \in BOOLEAN :
                    respond429(r, retryAfter, global)
                        => /\ pc'[r] = "sleep"
                           /\ sleepLeft'[r] = retryAfter
                           /\ outcome'[r] = "none"
                           /\ retries'[r] = retries[r]
             /\ (kinds[r] = "429" /\ respondOk(r))
                    => (pc'[r] = "done" /\ outcome'[r] = "ok")]_vars

\* C35 witness: a call resolved on its fourth transmission, after three 429
\* responses (one more than the retry budget allows for failures), with its
\* retry count still 0.
C35_Witness ==
    \E r \in Requests :
        /\ pc[r] = "done"
        /\ outcome[r] = "ok"
        /\ sends[r] = RetryLimit + 1
        /\ retries[r] = 0

\* C36: the headers sent with a multipart request are the session defaults,
\* the computed multipart headers and the request's own headers merged in
\* that order: a name the request sets is sent with the request's value.
C36_RequestHeadersWin ==
    (headerCall.files /\ headerCall.sent # NoHeaders)
    => \A n \in HeaderNames :
          /\ headerCall.headers[n] # "-" => headerCall.sent[n] = headerCall.headers[n]
          /\ (headerCall.headers[n] = "-" /\ formDataHeaders[n] # "-")
                => headerCall.sent[n] = formDataHeaders[n]
          /\ (headerCall.headers[n] = "-" /\ formDataHeaders[n] = "-")
                => headerCall.sent[n] = getHeaders[n]

\* C40: every request made through http.api has the path made of exactly the
\* segments its own call chain named, and the bucket key computed from that
\* path: earlier requests of the same client leave nothing in it.
C40_PathIsTheCallChain ==
    router.method # "-"
    => /\ router.path = router.chain
       /\ router.bucket = bucketOf(router.method, router.chain)

(***************************************************************************)
(* Claims about the asset resolver                                         *)
(***************************************************************************)
\* C3: under any interleaving of resolves, sweeps and renewals the
\* resolved-asset cache holds at most MAX_CACHE_SIZE entries.
C3_CacheBounded ==
    Len(resolvedAssetsCache) <= MAX_CACHE_SIZE

\* C9: with no eviction or clear in between, resolves of one cache key
\* perform the underlying resolution at most once, also when they overlap.
C9_ResolvedAtMostOnce ==
    \A k \in Keys : resolutions[k] <= 1

\* C21: a step that inserts a new key into a full resolved-asset cache evicts
\* exactly one entry, the one inserted earliest, and puts the new key last;
\* a step that leaves the set of keys alone (a hit, a renewal) leaves their
\* order alone.
C21_FifoEviction ==
    [][/\ \A k \in Keys :
            (/\ ~Has(resolvedAssetsCache, k)
             /\ Has(resolvedAssetsCache', k)
             /\ Len(resolvedAssetsCache) >= MAX_CACHE_SIZE)
            => keysOf(resolvedAssetsCache') = Append(Tail(keysOf(resolvedAssetsCache)), k)
       /\ (\A k \in Keys : Has(resolvedAssetsCache', k) <=> Has(resolvedAssetsCache, k))
            => keysOf(resolvedAssetsCache') = keysOf(resolvedAssetsCache)
      ]_vars

\* C22: a resolve that finds a cached attachment key expiring more than an
\* hour from now returns it unchanged without a renew call; one that finds a
\* key expiring within the hour makes one renew call, and when that call
\* succeeds the entry is overwritten with the renewed key, which is returned.
C22_RenewOnlyWithinTheHour ==
    [][\A p \in Tasks :
          /\ \A k \in Keys :
                /\ (resolveImage(p, k) /\ Get(resolvedAssetsCache, k) = "fresh")
                   => /\ task'[p] = "idle"
                      /\ returned' = "fresh"
                      /\ resolvedAssetsCache' = resolvedAssetsCache
                /\ (resolveImage(p, k) /\ Get(resolvedAssetsCache, k) = "soon")
                   => /\ task'[p] = "renewing"
                      /\ taskKey'[p] = k
                      /\ returned' = "-"
                      /\ resolvedAssetsCache' = resolvedAssetsCache
          /\ (task[p] = "renewing" /\ task'[p] # "renewing") => task'[p] = "idle"
          /\ renewReturns(p, "fresh")
             => /\ Get(resolvedAssetsCache', taskKey[p]) = "fresh"
                /\ returned' = "fresh"
      ]_vars

\* a resolve has found a key expiring within the hour and awaits its renew call
C22_Witness ==
    \E p \in Tasks :
        /\ task[p] = "renewing"
        /\ Get(resolvedAssetsCache, taskKey[p]) = "soon"
        /\ returned = "-"

\* C23: when the upload or proxy call of a resolution fails, the resolve
\* yields absent, stores nothing, and ends (buildActivity() goes on with the
\* image left out); the cache never holds an absent value.
C23_FailedResolutionIsAbsorbed ==
    /\ [](\A i \in 1..Len(resolvedAssetsCache) :
             resolvedAssetsCache[i][2] \in {"fresh", "soon"})
    /\ [][\A p \in Tasks :
             resolveReturns(p, "none")
             => /\ returned' = "none"
                /\ task'[p] = "idle"
                /\ resolvedAssetsCache' = resolvedAssetsCache
         ]_vars

\* a resolution has just failed: absent was returned, every call has ended
\* and the cache holds nothing
C23_Witness ==
    /\ returned = "none"
    /\ \A p \in Tasks : task[p] = "idle"
    /\ resolvedAssetsCache = <<>>

\* C24: between two clears the asset list of an application id is fetched at
\* most once, however the resolves of application-asset references interleave.
C24_AssetListFetchedOnce ==
    \A a \in AppIds : fetches[a] <= 1

\* C25: an instance never has more than one live renewal timer; once
\* stopBackgroundRenewal() or destroy() has been called (destroy() is what
\* Client.removeRPC() and Client.close() call on the instance) it has none,
\* and no background sweep starts after that.
C25_OneRenewalTimerUntilStopped ==
    /\ renewalTimers <= 1
    /\ stopped => (renewalTimers = 0 /\ ~renewalInterval)
    /\ ~sweepAfterStop

\* the timer was stopped and the instance went on resolving images
C25_Witness ==
    /\ stopped
    /\ renewalTimers = 0
    /\ sweep = "idle"
    /\ returned = "fresh"
    /\ Len(resolvedAssetsCache) = MAX_CACHE_SIZE

C37_FailedResolveLeavesCache ==
    [][\A p \in Tasks :
          /\ (task[p] = "idle" /\ task'[p] = "resolving")
                => resolvedAssetsCache' = resolvedAssetsCache
          /\ (task[p] = "resolving" /\ task'[p] = "idle" /\ returned' = "none")
                => resolvedAssetsCache' = resolvedAssetsCache
      ]_vars

\* C38: every resolveImage() call comes to an end, whatever the class of the
\* reference and whatever its resolution yields, when every service call it
\* awaits returns.
C38_ResolveImageTerminates ==
    \A p \in Tasks : (task[p] # "idle") ~> (task[p] = "idle")

\* C39: a failed fetch of an application's asset list is not cached: a
\* resolve of an application-asset reference made while the map held for
\* the current application id comes from a failed fetch fetches the list
\* again instead of answering from that map.
C39_FailedFetchNotCached ==
    [][\A p \in Tasks :
          (applicationAssetsCache[applicationId] = <<0>> /\ resolveAppAsset(p))
          => (task'[p] = "fetching" /\ fetchApp'[p] = applicationId)
      ]_vars

====
